---- MODULE Spec2Model ----
(***************************************************************************)
(* Model of the chess-llm replay client: the move-notation parser and the  *)
(* illegal-move classifier (src/website/client/src/lib/chess-logic.ts) and *)
(* the replay controller (src/website/client/src/hooks/useChessReplay.ts). *)
(*                                                                         *)
(* Strings are sequences of one-character strings, so that the regular     *)
(* expressions of the parser are matched character by character.  A board  *)
(* square is a pair <<file, rank>> of numbers 1..8 inside the rules engine *)
(* and the two-character name <<"e", "4">> in the client code.             *)
(***************************************************************************)
EXTENDS Integers, Sequences, FiniteSets, TLC

\* ------------------------------------------------------------------------
\* Characters and squares
\* ------------------------------------------------------------------------

BoardSize == 8

FileChars == <<"a", "b", "c", "d", "e", "f", "g", "h">>

RankChars == <<"1", "2", "3", "4", "5", "6", "7", "8">>

FileSet == {FileChars[i] : i \in 1..BoardSize}

RankSet == {RankChars[i] : i \in 1..BoardSize}

Squares == (1..BoardSize) \X (1..BoardSize)

\* algebraic(): the name of a square
SqName(sq) == <<FileChars[sq[1]], RankChars[sq[2]]>>

IsSquareName(s) == Len(s) = 2 /\ s[1] \in FileSet /\ s[2] \in RankSet

IndexOf(seq, c) == CHOOSE i \in 1..Len(seq) : seq[i] = c

\* the square a name denotes
SqOf(s) == <<IndexOf(FileChars, s[1]), IndexOf(RankChars, s[2])>>

ToLower(c) ==
  CASE c = "R" -> "r" [] c = "N" -> "n" [] c = "B" -> "b" [] c = "Q" -> "q"
    [] c = "K" -> "k" [] c = "P" -> "p" [] OTHER -> c

ToUpper(c) ==
  CASE c = "r" -> "R" [] c = "n" -> "N" [] c = "b" -> "B" [] c = "q" -> "Q"
    [] c = "k" -> "K" [] c = "p" -> "P" [] OTHER -> c

\* String.prototype.includes
Includes(s, sub) ==
  \E i \in 0..(Len(s) - Len(sub)) : \A j \in 1..Len(sub) : s[i + j] = sub[j]

\* san.replace(/[+#?!]/g, '')
IsSuffixMark(c) == c \in {"+", "#", "?", "!"}

\* a variant that also drops white space, as a trimming parser would
StripMarksAndSpace(s) == SelectSeq(s, LAMBDA c : ~IsSuffixMark(c) /\ c # " ")

StripMarks(s) == SelectSeq(s, LAMBDA c : ~IsSuffixMark(c))

\* ------------------------------------------------------------------------
\* parseMove
\* ------------------------------------------------------------------------

NoParse == [ok |-> FALSE]

HasChar(s, c) == \E i \in 1..Len(s) : s[i] = c

\* /^([a-h][1-8])([a-h][1-8])([qrbn])?$/
UciMatch(s) ==
  /\ Len(s) \in {4, 5}
  /\ s[1] \in FileSet /\ s[2] \in RankSet
  /\ s[3] \in FileSet /\ s[4] \in RankSet
  /\ Len(s) = 5 => s[5] \in {"q", "r", "b", "n"}

\* /^([RNBQK])?([a-h1-8]{0,2})?(x)?([a-h][1-8])(=[RNBQ])?$/ : the lengths
\* <<piece, disambiguation, capture, promotion>> of the groups in every way
\* the string matches
SanSplits(s) ==
  {g \in {0, 1} \X {0, 1, 2} \X {0, 1} \X {0, 2} :
     /\ Len(s) = g[1] + g[2] + g[3] + 2 + g[4]
     /\ g[1] = 1 => s[1] \in {"R", "N", "B", "Q", "K"}
     /\ \A i \in (g[1] + 1)..(g[1] + g[2]) : s[i] \in FileSet \cup RankSet
     /\ g[3] = 1 => s[g[1] + g[2] + 1] = "x"
     /\ s[g[1] + g[2] + g[3] + 1] \in FileSet
     /\ s[g[1] + g[2] + g[3] + 2] \in RankSet
     /\ g[4] = 2 => /\ s[g[1] + g[2] + g[3] + 3] = "="
                    /\ s[g[1] + g[2] + g[3] + 4] \in {"R", "N", "B", "Q"}}

\* the match a greedy regular expression finds: the earlier groups as long
\* as they can be; <<>> when there is none
Greedy(splits) ==
  IF splits = {} THEN <<>>
  ELSE CHOOSE g \in splits :
         \A h \in splits : g[1] > h[1] \/ (g[1] = h[1] /\ g[2] >= h[2])

SanMatch(s) == Greedy(SanSplits(s))

ParsedMove(san, pieceType, targetSquare, isCapture, promotion, disambiguation) ==
  [ok |-> TRUE, san |-> san, pieceType |-> pieceType,
   targetSquare |-> targetSquare, isCapture |-> isCapture,
   isCheck |-> HasChar(san, "+"), isMate |-> HasChar(san, "#"),
   promotion |-> promotion, disambiguation |-> disambiguation]

\* 1. coordinate notation
ParseUci(san, cleanSan) ==
  ParsedMove(san, "p", SubSeq(cleanSan, 3, 4), FALSE,
             SubSeq(cleanSan, 5, Len(cleanSan)), SubSeq(cleanSan, 1, 2))

\* 2. short algebraic notation, g the groups' lengths; an absent promotion
\*    or disambiguation (undefined) is the empty string
ParseSan(san, cleanSan, g) ==
  ParsedMove(san,
             IF g[1] = 1 THEN ToLower(cleanSan[1]) ELSE "p",
             SubSeq(cleanSan, g[1] + g[2] + g[3] + 1, g[1] + g[2] + g[3] + 2),
             g[3] = 1,
             SubSeq(cleanSan, g[1] + g[2] + g[3] + 4, g[1] + g[2] + g[3] + 2 + g[4]),
             SubSeq(cleanSan, g[1] + 1, g[1] + g[2]))

\* a castling case that knows the letter O only, not the digit 0
ParseCastlingLetterO(san, cleanSan) ==
  IF cleanSan = <<"O", "-", "O">>
  THEN ParsedMove(san, "k", <<"g">>, FALSE, <<>>, <<>>)
  ELSE IF cleanSan = <<"O", "-", "O", "-", "O">>
  THEN ParsedMove(san, "k", <<"c">>, FALSE, <<>>, <<>>)
  ELSE NoParse

\* 3. castling
ParseCastling(san, cleanSan) ==
  IF cleanSan \in {<<"O", "-", "O">>, <<"0", "-", "0">>}
  THEN ParsedMove(san, "k", <<"g">>, FALSE, <<>>, <<>>)
  ELSE IF cleanSan \in {<<"O", "-", "O", "-", "O">>, <<"0", "-", "0", "-", "0">>}
  THEN ParsedMove(san, "k", <<"c">>, FALSE, <<>>, <<>>)
  ELSE NoParse

ParseSanOrCastling(san, cleanSan, g) ==
  IF g # <<>> THEN ParseSan(san, cleanSan, g) ELSE ParseCastling(san, cleanSan)

ParseClean(san, cleanSan) ==
  IF UciMatch(cleanSan) THEN ParseUci(san, cleanSan)
  ELSE ParseSanOrCastling(san, cleanSan, SanMatch(cleanSan))

parseMove(san) ==
  IF san = <<>> THEN NoParse ELSE ParseClean(san, StripMarks(san))

\* ------------------------------------------------------------------------
\* The rules engine (chess.js) as the client calls it.  A position is what a
\* FEN string encodes: the pieces, the side to move and the two move
\* counters.  The positions of this model carry no castling rights and no
\* en-passant square (both fields of the FEN are "-").
\* ------------------------------------------------------------------------

Other(c) == IF c = "w" THEN "b" ELSE "w"

Abs(n) == IF n < 0 THEN -n ELSE n

Sign(n) == IF n < 0 THEN -1 ELSE IF n > 0 THEN 1 ELSE 0

MaxOf(a, b) == IF a > b THEN a ELSE b

\* the place of a square in chess.board(): rank 8 first, file a first
OrderKey(sq) == (BoardSize - sq[2]) * BoardSize + sq[1]

Pc(t, c, name) == [type |-> t, color |-> c, square |-> SqOf(name)]

Position(pcs, turn) == [pcs |-> pcs, turn |-> turn, half |-> 0, full |-> 1]

Occupied(pcs) == {p.square : p \in pcs}

\* chess.get(square): the pieces on the square (none or one)
PiecesOn(pcs, sq) == {p \in pcs : p.square = sq}

\* the squares strictly between two squares of a rank, file or diagonal
Between(a, b) ==
  LET df == Sign(b[1] - a[1])
      dr == Sign(b[2] - a[2])
      n  == MaxOf(Abs(b[1] - a[1]), Abs(b[2] - a[2]))
  IN {<<a[1] + k * df, a[2] + k * dr>> : k \in 1..(n - 1)}

\* the squares a knight, bishop, rook, queen or king on `from` moves to on
\* an empty board
Geometry(t, from, to) ==
  LET df == Abs(to[1] - from[1])
      dr == Abs(to[2] - from[2])
  IN /\ from # to
     /\ CASE t = "n" -> {df, dr} = {1, 2}
          [] t = "k" -> df <= 1 /\ dr <= 1
          [] t = "r" -> df = 0 \/ dr = 0
          [] t = "b" -> df = dr
          [] t = "q" -> df = 0 \/ dr = 0 \/ df = dr

Targets ==
  [t \in {"n", "k", "r", "b", "q"} |->
     [from \in Squares |-> {to \in Squares : Geometry(t, from, to)}]]

Path ==
  [from \in Squares |->
     [to \in Squares |->
        IF Geometry("q", from, to) THEN Between(from, to) ELSE {}]]

\* a knight, bishop, rook, queen or king on `from` reaches `to`
Reaches(t, from, to, occ) ==
  to \in Targets[t][from] /\ Path[from][to] \cap occ = {}

PawnDir(c) == IF c = "w" THEN 1 ELSE -1

PawnStartRank(c) == IF c = "w" THEN 2 ELSE BoardSize - 1

PawnLastRank(c) == IF c = "w" THEN BoardSize ELSE 1

PawnAttacks(c, from, to) ==
  to[2] = from[2] + PawnDir(c) /\ Abs(to[1] - from[1]) = 1

Attacked(pcs, sq, by) ==
  LET occ == Occupied(pcs)
  IN \E p \in pcs :
       /\ p.color = by
       /\ IF p.type = "p" THEN PawnAttacks(p.color, p.square, sq)
          ELSE Reaches(p.type, p.square, sq, occ)

Mv(p, to, promo, cap) ==
  [from |-> p.square, to |-> to, piece |-> p.type, color |-> p.color,
   promotion |-> promo, capture |-> cap]

PromotionsAt(c, to) ==
  IF to[2] = PawnLastRank(c) THEN {<<"q">>, <<"r">>, <<"b">>, <<"n">>}
  ELSE {<<>>}

PawnMoves(pcs, p) ==
  LET occ  == Occupied(pcs)
      f    == p.square[1]
      r    == p.square[2]
      d    == PawnDir(p.color)
      one  == <<f, r + d>>
      two  == <<f, r + 2 * d>>
      push == IF one \in Squares /\ one \notin occ
              THEN {one} \cup (IF r = PawnStartRank(p.color) /\ two \notin occ
                               THEN {two} ELSE {})
              ELSE {}
      caps == {q.square : q \in {q \in pcs : /\ q.color # p.color
                                             /\ PawnAttacks(p.color, p.square, q.square)}}
  IN {Mv(p, to, pr, FALSE) : <<to, pr>> \in
        UNION {{to} \X PromotionsAt(p.color, to) : to \in push}}
     \cup
     {Mv(p, to, pr, TRUE) : <<to, pr>> \in
        UNION {{to} \X PromotionsAt(p.color, to) : to \in caps}}

PieceMoves(pcs, p) ==
  IF p.type = "p" THEN PawnMoves(pcs, p)
  ELSE LET occ == Occupied(pcs)
           own == {q.square : q \in {q \in pcs : q.color = p.color}}
       IN {Mv(p, to, <<>>, to \in occ) :
             to \in {to \in Targets[p.type][p.square] \ own :
                       Path[p.square][to] \cap occ = {}}}

\* the pieces after a move
MovePieces(pcs, m) ==
  {p \in pcs : p.square # m.from /\ p.square # m.to}
  \cup {[type |-> IF m.promotion # <<>> THEN m.promotion[1] ELSE m.piece,
         color |-> m.color, square |-> m.to]}

KingSquares(pcs, c) == {p.square : p \in {p \in pcs : p.type = "k" /\ p.color = c}}

InCheckAfter(pcs, m) ==
  LET after == MovePieces(pcs, m)
  IN \E k \in KingSquares(after, m.color) : Attacked(after, k, Other(m.color))

\* chess.moves({ verbose: true }): the legal moves of the side to move
LegalMoves(pos) ==
  {m \in UNION {PieceMoves(pos.pcs, p) : p \in {p \in pos.pcs : p.color = pos.turn}} :
     ~InCheckAfter(pos.pcs, m)}

\* the position after a legal move
MakeMove(pos, m) ==
  [pcs  |-> MovePieces(pos.pcs, m),
   turn |-> Other(pos.turn),
   half |-> IF m.piece = "p" \/ m.capture THEN 0 ELSE pos.half + 1,
   full |-> IF pos.turn = "b" THEN pos.full + 1 ELSE pos.full]

\* the first element of a set of moves in the engine's generation order
\* (squares from a8 to h1)
PromotionOrder(pr) ==
  CASE pr = <<"q">> -> 1 [] pr = <<"r">> -> 2 [] pr = <<"b">> -> 3
    [] pr = <<"n">> -> 4 [] OTHER -> 0

FirstMove(ms) ==
  CHOOSE m \in ms : \A o \in ms :
    \/ OrderKey(m.from) < OrderKey(o.from)
    \/ /\ m.from = o.from
       /\ PromotionOrder(m.promotion) <= PromotionOrder(o.promotion)

\* chess.move({ from, to, promotion }): the moves it may make (none: it throws)
MoveObject(pos, from, to, promotion) ==
  {m \in LegalMoves(pos) :
     /\ SqName(m.from) = from
     /\ SqName(m.to) = to
     /\ (m.promotion = <<>> \/ promotion = m.promotion)}

\* getDisambiguator(): what tells the move from the other legal moves of a
\* piece of the same type to the same square
Ambiguous(m, moves) ==
  {o \in moves : o.piece = m.piece /\ o.to = m.to /\ o.from # m.from}

DisambiguatorFor(m, others) ==
  IF others = {} THEN <<>>
  ELSE IF /\ \E o \in others : o.from[2] = m.from[2]
          /\ \E o \in others : o.from[1] = m.from[1]
  THEN SqName(m.from)
  ELSE IF \E o \in others : o.from[1] = m.from[1] THEN <<RankChars[m.from[2]]>>
  ELSE <<FileChars[m.from[1]]>>

Disambiguator(m, moves) == DisambiguatorFor(m, Ambiguous(m, moves))

\* the move in short algebraic notation, without its check or mate mark
MoveToSan(m, moves) ==
  (IF m.piece # "p" THEN <<ToUpper(m.piece)>> \o Disambiguator(m, moves) ELSE <<>>)
  \o (IF m.capture
      THEN (IF m.piece = "p" THEN <<FileChars[m.from[1]]>> ELSE <<>>) \o <<"x">>
      ELSE <<>>)
  \o SqName(m.to)
  \o (IF m.promotion # <<>> THEN <<"=", ToUpper(m.promotion[1])>> ELSE <<>>)

FirstIndexOf(s, c) ==
  CHOOSE i \in 1..Len(s) : s[i] = c /\ \A j \in 1..(i - 1) : s[j] # c

\* s.replace(c, '')
DropAt(s, i) == SubSeq(s, 1, i - 1) \o SubSeq(s, i + 1, Len(s))

DropFirst(s, c) == IF HasChar(s, c) THEN DropAt(s, FirstIndexOf(s, c)) ELSE s

RECURSIVE DropTrailing(_, _)
DropTrailing(s, cs) ==
  IF s # <<>> /\ s[Len(s)] \in cs THEN DropTrailing(SubSeq(s, 1, Len(s) - 1), cs)
  ELSE s

DropCheckMark(s) ==
  IF s # <<>> /\ s[Len(s)] \in {"+", "#"} THEN SubSeq(s, 1, Len(s) - 1) ELSE s

\* strippedSan(): move.replace(/=/, '').replace(/[+#]?[?!]*$/, '')
StrippedSan(s) == DropCheckMark(DropTrailing(DropFirst(s, "="), {"?", "!"}))

\* the permissive parser's two patterns,
\*   ([pnbrqkPNBRQK])?([a-h][1-8])x?-?([a-h][1-8])([qrbnQRBN])?
\*   ([pnbrqkPNBRQK])?([a-h]?[1-8]?)x?-?([a-h][1-8])([qrbnQRBN])?
\* matched against the whole string: the lengths of <<piece, from, x, -,
\* promotion>> in every way the string matches
PieceLetters == {"p", "n", "b", "r", "q", "k", "P", "N", "B", "R", "Q", "K"}

PermissiveSplits(s) ==
  {g \in {0, 1} \X {0, 1, 2} \X {0, 1} \X {0, 1} \X {0, 1} :
     /\ Len(s) = g[1] + g[2] + g[3] + g[4] + 2 + g[5]
     /\ g[1] = 1 => s[1] \in PieceLetters
     /\ g[2] = 2 => (s[g[1] + 1] \in FileSet /\ s[g[1] + 2] \in RankSet)
     /\ g[2] = 1 => s[g[1] + 1] \in FileSet \cup RankSet
     /\ g[3] = 1 => s[g[1] + g[2] + 1] = "x"
     /\ g[4] = 1 => s[g[1] + g[2] + g[3] + 1] = "-"
     /\ s[g[1] + g[2] + g[3] + g[4] + 1] \in FileSet
     /\ s[g[1] + g[2] + g[3] + g[4] + 2] \in RankSet
     /\ g[5] = 1 => s[g[1] + g[2] + g[3] + g[4] + 3]
                      \in {"q", "r", "b", "n", "Q", "R", "B", "N"}}

\* <<piece, from, to, promotion>> of the match g
PermissiveGroups(s, g) ==
  IF g = <<>> THEN <<>>
  ELSE <<SubSeq(s, 1, g[1]),
         SubSeq(s, g[1] + 1, g[1] + g[2]),
         SubSeq(s, g[1] + g[2] + g[3] + g[4] + 1, g[1] + g[2] + g[3] + g[4] + 2),
         SubSeq(s, g[1] + g[2] + g[3] + g[4] + 3, g[1] + g[2] + g[3] + g[4] + 2 + g[5])>>

PermissiveMatch(s) == PermissiveGroups(s, Greedy(PermissiveSplits(s)))

\* inferPieceType(): the empty string stands for undefined (any piece)
InferPieceType(s) ==
  IF s = <<>> THEN <<>>
  ELSE IF s[1] \in FileSet
  THEN (IF \E i \in 1..(Len(s) - 1), j \in 1..(Len(s) - 1) :
             /\ i + 2 <= j
             /\ s[i] \in FileSet /\ s[i + 1] \in RankSet
             /\ s[j] \in FileSet /\ s[j + 1] \in RankSet
        THEN <<>> ELSE <<"p">>)
  ELSE IF s[1] \in {"o", "O"} THEN <<"k">>
  ELSE <<ToLower(s[1])>>

\* this._moves({ legal: true, piece })
OfType(legal, t) == IF t = <<>> THEN legal ELSE {m \in legal : m.piece = ToLower(t[1])}

\* the strict parser: the move whose notation is the string
StrictMoves(clean, moves) ==
  {m \in moves : StrippedSan(MoveToSan(m, moves)) = clean}

\* the permissive parser, pm its match
LooseMoves(clean, moves, pm) ==
  {m \in moves :
     IF pm[2] = <<>>
     THEN clean = DropFirst(StrippedSan(MoveToSan(m, moves)), "x")
     ELSE /\ pm[1] = <<>> \/ ToLower(pm[1][1]) = m.piece
          /\ pm[4] = <<>> \/ <<ToLower(pm[4][1])>> = m.promotion
          /\ SqName(m.to) = pm[3]
          /\ \/ SqName(m.from) = pm[2]
             \/ Len(pm[2]) = 1 /\ HasChar(SqName(m.from), pm[2][1])}

PermissiveMoves(clean, legal, inferred, pm) ==
  IF pm = <<>> THEN {}
  ELSE LooseMoves(clean, IF pm[1] # <<>> THEN OfType(legal, pm[1]) ELSE inferred, pm)

StrictOrPermissive(clean, legal, inferred, strict) ==
  IF strict # {} THEN strict
  ELSE PermissiveMoves(clean, legal, inferred, PermissiveMatch(clean))

MovesOfClean(clean, legal, inferred) ==
  StrictOrPermissive(clean, legal, inferred, StrictMoves(clean, inferred))

MovesOfSan(clean, legal) ==
  MovesOfClean(clean, legal, OfType(legal, InferPieceType(clean)))

\* chess.move(san): the moves it may make (none: it throws)
MoveFromSan(pos, san) == MovesOfSan(StrippedSan(san), LegalMoves(pos))

MoveOrStay(pos, ms) == IF ms = {} THEN pos ELSE MakeMove(pos, FirstMove(ms))

\* tempChess.move(m.actual_move) inside try/catch: the position after the
\* move, or the position unchanged when the engine throws
TryMove(pos, san) == MoveOrStay(pos, MoveFromSan(pos, san))

\* ------------------------------------------------------------------------
\* analyzeIllegalMove
\* ------------------------------------------------------------------------

\* the first element of a list that chess.board() order built
FirstPiece(ps) ==
  CHOOSE p \in ps : \A q \in ps : OrderKey(p.square) <= OrderKey(q.square)

\* an analysis result; an absent pieceType is "", an absent or null square
\* is the empty string, and the description is its kind
Analysis(type, pieceType, targetSquare, sourceSquare, description) ==
  [type |-> type, pieceType |-> pieceType, targetSquare |-> targetSquare,
   sourceSquare |-> sourceSquare, description |-> description]

TurnColor(color) == IF color = "white" THEN "w" ELSE "b"

\* 1. all pieces of this type on the board
PiecesOfType(fen, t) == {p \in fen.pcs : p.type = t}

\* chess.get(from) of a move in coordinate notation
UciSource(fen, cleanSan) ==
  IF UciMatch(cleanSan) THEN PiecesOn(fen.pcs, SqOf(SubSeq(cleanSan, 1, 2))) ELSE {}

TypeAt(pieceAtSource, parsedType) ==
  IF pieceAtSource # {} THEN FirstPiece(pieceAtSource).type ELSE parsedType

\* the piece type after "if it was UCI, determine the actual piece type"
CorrectedType(fen, moveSan, parsedType) ==
  TypeAt(UciSource(fen, StripMarks(moveSan)), parsedType)

\* pieces.find((p) => p.square.includes(hint)), as a set
Hinted(pieces, hint) == {p \in pieces : Includes(SqName(p.square), hint)}

SquareOfFirst(pieces) ==
  IF pieces # {} THEN SqName(FirstPiece(pieces).square) ELSE <<>>

\* a source found with the single-candidate shortcut before the hint
IntendedSourceShortcutFirst(hint, playerPieces) ==
  IF Cardinality(playerPieces) = 1 THEN SquareOfFirst(playerPieces)
  ELSE IF hint # <<>> THEN SquareOfFirst(Hinted(playerPieces, hint))
  ELSE <<>>

\* 2. the intended source (the empty string: null)
IntendedSource(hint, playerPieces) ==
  IF hint # <<>> THEN SquareOfFirst(Hinted(playerPieces, hint))
  ELSE IF Cardinality(playerPieces) = 1 THEN SquareOfFirst(playerPieces)
  ELSE <<>>

\* 3. testChess.move({ from, to, promotion }) with the identified source
MoveResult(fen, sourceSquare, parsed) ==
  IF sourceSquare # <<>>
  THEN MoveObject(fen, sourceSquare, parsed.targetSquare, parsed.promotion)
  ELSE {}

\* 4. disambiguation mismatch, anyMatching the pieces of either color the
\*    hint matches
HintMismatch(parsed, pieceType, turnColor, anyMatching) ==
  IF anyMatching # {}
  THEN Analysis("illegal", pieceType, parsed.targetSquare,
                SqName(FirstPiece(anyMatching).square),
                IF FirstPiece(anyMatching).color # turnColor
                THEN "ownership hallucination" ELSE "illegal move")
  ELSE Analysis("hallucination", pieceType, parsed.targetSquare, <<>>,
                "location hallucination")

MatchingLegalMoves(fen, pieceType, targetSquare) ==
  {m \in LegalMoves(fen) : m.piece = pieceType /\ SqName(m.to) = targetSquare}

FallbackWith(parsed, pieceType, playerPieces, matchingLegal) ==
  IF matchingLegal # {}
  THEN Analysis("legal", pieceType, parsed.targetSquare,
                SqName(FirstMove(matchingLegal).from), "unusual notation")
  ELSE Analysis("illegal", pieceType, parsed.targetSquare,
                SqName(FirstPiece(playerPieces).square), "illegal move")

\* 5. no disambiguation provided
Fallback(fen, parsed, pieceType, playerPieces) ==
  IF playerPieces # {}
  THEN FallbackWith(parsed, pieceType, playerPieces,
                    MatchingLegalMoves(fen, pieceType, parsed.targetSquare))
  ELSE Analysis("hallucination", pieceType, parsed.targetSquare, <<>>,
                "hallucination")

AnalyzeSource(fen, parsed, pieceType, turnColor, allPiecesOfThisType, playerPieces, sourceSquare) ==
  IF MoveResult(fen, sourceSquare, parsed) # {}
  THEN Analysis("legal", pieceType, parsed.targetSquare, sourceSquare, "played")
  ELSE IF parsed.disambiguation # <<>>
  THEN HintMismatch(parsed, pieceType, turnColor,
                    Hinted(allPiecesOfThisType, parsed.disambiguation))
  ELSE Fallback(fen, parsed, pieceType, playerPieces)

AnalyzePlayer(fen, parsed, pieceType, turnColor, allPiecesOfThisType, playerPieces) ==
  AnalyzeSource(fen, parsed, pieceType, turnColor, allPiecesOfThisType, playerPieces,
                IntendedSource(parsed.disambiguation, playerPieces))

\* the pieces are collected with the parsed type, before the type of a
\* move in coordinate notation is corrected
AnalyzePieces(fen, parsed, pieceType, turnColor, allPiecesOfThisType) ==
  AnalyzePlayer(fen, parsed, pieceType, turnColor, allPiecesOfThisType,
                {p \in allPiecesOfThisType : p.color = turnColor})

AnalyzeParsed(fen, moveSan, turnColor, parsed) ==
  IF ~parsed.ok
  THEN Analysis("unknown", "", <<>>, <<>>, "unrecognizable")
  ELSE AnalyzePieces(fen, parsed, CorrectedType(fen, moveSan, parsed.pieceType),
                     turnColor, PiecesOfType(fen, parsed.pieceType))

analyzeIllegalMove(fen, moveSan, color) ==
  AnalyzeParsed(fen, moveSan, TurnColor(color), parseMove(moveSan))

\* ------------------------------------------------------------------------
\* State
\* ------------------------------------------------------------------------

VARIABLES
  cFen,                \* analyzeIllegalMove's argument fen
  cMove,               \* its argument moveSan
  cColor,              \* its argument agentColor
  cResult,             \* its result
  initialFen,          \* useChessReplay's props
  gameMoves,
  agentColor,
  loadData,            \* how far ReplayPage's loadData, which sets them, has come
  currentMoveIndex,    \* useChessReplay's state
  boardPosition,
  arrows,
  customSquareStyles,
  hallucinatedSquare,
  illegalSquare,
  analysisResult,
  effectPending,       \* the "sync visuals" effect is scheduled
  moveCalls,           \* tempChess.move calls of the last replay loop run
  startColor,          \* MoveHistory's prop
  rows,                \* MoveHistory's grouping loop
  currentNumber,
  currentRow,
  expectedColor,
  forEachIndex,        \* the index moves.forEach has come to
  rendered             \* the rows are final

classifierVars == <<cFen, cMove, cColor, cResult>>

propVars == <<initialFen, gameMoves, agentColor, loadData>>

replayVars == <<currentMoveIndex, boardPosition, arrows, customSquareStyles,
                hallucinatedSquare, illegalSquare, analysisResult, effectPending,
                moveCalls>>

historyVars == <<startColor, rows, currentNumber, currentRow, expectedColor,
                 forEachIndex, rendered>>

vars == <<classifierVars, propVars, replayVars, historyVars>>

\* ------------------------------------------------------------------------
\* useChessReplay
\* ------------------------------------------------------------------------

\* the empty string where a FEN is expected
NoFen == [pcs |-> {}, turn |-> "", half |-> 0, full |-> 0]

\* no analysis result (null)
NoAnalysis == Analysis("", "", <<>>, <<>>, "")

BackRank == <<"r", "n", "b", "q", "k", "b", "n", "r">>

\* new Chess(): the standard starting position
DefaultPosition ==
  Position({[type |-> BackRank[f], color |-> "w", square |-> <<f, 1>>] : f \in 1..BoardSize}
           \cup {[type |-> "p", color |-> "w", square |-> <<f, 2>>] : f \in 1..BoardSize}
           \cup {[type |-> "p", color |-> "b", square |-> <<f, BoardSize - 1>>] : f \in 1..BoardSize}
           \cup {[type |-> BackRank[f], color |-> "b", square |-> <<f, BoardSize>>] : f \in 1..BoardSize},
           "w")

\* a base that ignores the game's initial FEN
getBaseChessDefault == DefaultPosition

getBaseChess == IF initialFen # NoFen THEN initialFen ELSE DefaultPosition

\* gameMoves[index] of the 0-based array: the records there (none: undefined)
RecordAt(index) ==
  IF index >= 0 /\ index < Len(gameMoves) THEN {gameMoves[index + 1]} ELSE {}

\* a replay loop that plays every recorded move, flagged or not
ReplayStepIgnoringFlag(pos, i) ==
  IF \E m \in RecordAt(i) : m.actual_move # <<>>
  THEN TryMove(pos, gameMoves[i + 1].actual_move)
  ELSE pos

\* one turn of the loop "for (let i = 0; i < index; i++)"
ReplayStep(pos, i) ==
  IF \E m \in RecordAt(i) : ~m.is_illegal /\ m.actual_move # <<>>
  THEN TryMove(pos, gameMoves[i + 1].actual_move)
  ELSE pos

RECURSIVE ReplayLoop(_, _, _)
ReplayLoop(pos, i, index) ==
  IF i >= index THEN pos ELSE ReplayLoop(ReplayStep(pos, i), i + 1, index)

\* a replay that starts from the board on display instead of the base
ReplayBaseFromBoard(index) == ReplayLoop(boardPosition, 0, index)

\* the FEN before the move at index
ReplayBase(index) == ReplayLoop(getBaseChess, 0, index)

\* the calls of tempChess.move the loop makes on its way to index
MoveCalls(index) ==
  Cardinality({i \in 0..(index - 1) :
                 \E m \in RecordAt(i) : ~m.is_illegal /\ m.actual_move # <<>>})

\* chess.remove(square)
RemovePiece(pcs, name) == {p \in pcs : SqName(p.square) # name}

\* chess.put({ type, color }, square): refused for what is no square and
\* for a second king
PutPiece(pcs, type, color, name) ==
  IF ~IsSquareName(name) THEN pcs
  ELSE IF type = "k" /\ \E p \in pcs : p.type = "k" /\ p.color = color
                                       /\ SqName(p.square) # name
  THEN pcs
  ELSE RemovePiece(pcs, name)
       \cup {[type |-> type, color |-> color, square |-> SqOf(name)]}

Removed(pcs, sourceSquare) ==
  IF sourceSquare # <<>> THEN RemovePiece(pcs, sourceSquare) ELSE pcs

Placed(pcs, analysis, turnColor) ==
  IF analysis.pieceType # ""
  THEN PutPiece(pcs, analysis.pieceType, turnColor, analysis.targetSquare)
  ELSE pcs

\* a visualized board that leaves the piece on its source square
DisplayFenKeepSource(baseFen, analysis) ==
  IF analysis.targetSquare # <<>>
  THEN [baseFen EXCEPT !.pcs = Placed(baseFen.pcs, analysis, TurnColor(agentColor))]
  ELSE baseFen

\* the visualized board of an illegal attempt
DisplayFen(baseFen, analysis) ==
  IF analysis.targetSquare # <<>>
  THEN [baseFen EXCEPT !.pcs = Placed(Removed(baseFen.pcs, analysis.sourceSquare),
                                      analysis, TurnColor(agentColor))]
  ELSE baseFen

\* a reset that is forgotten: the square of the frame left stays
KeepHallucinatedSquare(analysis) ==
  IF analysis.type = "hallucination" THEN analysis.targetSquare
  ELSE hallucinatedSquare

\* setHallucinatedSquare(null), then set again for a hallucination
NewHallucinatedSquare(analysis) ==
  IF analysis.type = "hallucination" THEN analysis.targetSquare ELSE <<>>

\* an illegal square that is left unset for a hallucination
IllegalSquareOfIllegalOnly(analysis) ==
  IF analysis.type = "hallucination" THEN <<>> ELSE analysis.targetSquare

\* setIllegalSquare(null), then set again when the analysis has a target
NewIllegalSquare(analysis) == analysis.targetSquare

\* a valid-move branch that always simulates the move
ValidMoveFenSimulated(index, baseFen) ==
  IF RecordAt(index) = {} THEN baseFen
  ELSE TryMove(baseFen, gameMoves[index + 1].actual_move)

\* a valid-move branch that shows the position before the move
ValidMoveFenBeforeMove(index, baseFen) ==
  IF \E m \in RecordAt(index) : m.fen # NoFen
  THEN gameMoves[index + 1].fen
  ELSE baseFen

\* the board of a move that is not flagged illegal
ValidMoveFen(index, baseFen) ==
  IF \E m \in RecordAt(index) : m.fen # NoFen
  THEN gameMoves[index + 1].fen
  ELSE IF RecordAt(index) = {} THEN baseFen
  ELSE TryMove(baseFen, gameMoves[index + 1].actual_move)

Arrow(from, to, color) == [startSquare |-> from, endSquare |-> to, color |-> color]

NoVisuals == [arrows |-> <<>>, styles |-> {}]

\* the arrow of the move the engine made (none when it threw)
MoveArrow(ms, color) ==
  IF ms # {}
  THEN <<Arrow(SqName(FirstMove(ms).from), SqName(FirstMove(ms).to), color)>>
  ELSE <<>>

\* 1. expected move (green)
ExpectedMoves(currentFen, moveRecord) ==
  IF moveRecord.expected_move # <<>>
  THEN MoveFromSan(currentFen, moveRecord.expected_move)
  ELSE {}

\* the catch branch: the analyzed source and target
AnalysisVisuals(analysis) ==
  IF analysis.targetSquare # <<>>
  THEN [arrows |-> IF analysis.sourceSquare # <<>>
                   THEN <<Arrow(analysis.sourceSquare, analysis.targetSquare, "red")>>
                   ELSE <<>>,
        styles |-> {analysis.targetSquare}]
  ELSE NoVisuals

ActualVisuals(currentFen, moveRecord, actual) ==
  IF actual # {} THEN [arrows |-> MoveArrow(actual, "red"), styles |-> {}]
  ELSE AnalysisVisuals(analyzeIllegalMove(currentFen, moveRecord.actual_move, agentColor))

\* 2. actual or illegal move (red)
RedVisuals(currentFen, moveRecord) ==
  IF moveRecord.actual_move # <<>> /\ moveRecord.actual_move # moveRecord.expected_move
  THEN ActualVisuals(currentFen, moveRecord,
                     MoveFromSan(currentFen, moveRecord.actual_move))
  ELSE NoVisuals

\* every style is the same red background, so the styles are the set of
\* styled squares
Combined(green, red, hallucinated) ==
  [arrows |-> green \o red.arrows,
   styles |-> red.styles \cup (IF hallucinated # <<>> THEN {hallucinated} ELSE {})]

RecordVisuals(currentFen, moveRecord, hallucinated) ==
  Combined(MoveArrow(ExpectedMoves(currentFen, moveRecord), "green"),
           RedVisuals(currentFen, moveRecord), hallucinated)

\* the arrows and square styles updateVisuals(index) sets
VisualsOf(index, hallucinated) ==
  IF RecordAt(index) = {} THEN NoVisuals
  ELSE RecordVisuals(ReplayBase(index), gameMoves[index + 1], hallucinated)

SetVisuals(visuals) ==
  /\ arrows' = visuals.arrows
  /\ customSquareStyles' = visuals.styles

\* the effect "sync visuals when special states change"
updateVisuals ==
  /\ effectPending
  /\ SetVisuals(VisualsOf(currentMoveIndex, hallucinatedSquare))
  /\ effectPending' = FALSE
  /\ moveCalls' = IF RecordAt(currentMoveIndex) = {} THEN 0
                  ELSE MoveCalls(currentMoveIndex)
  /\ UNCHANGED <<currentMoveIndex, boardPosition, hallucinatedSquare, illegalSquare,
                 analysisResult, propVars, classifierVars, historyVars>>

\* the effect runs after a render in which one of its dependencies changed
Schedule ==
  effectPending' =
    (<<hallucinatedSquare', illegalSquare', currentMoveIndex'>>
       # <<hallucinatedSquare, illegalSquare, currentMoveIndex>>)

\* the illegal branch
ShowIllegal(baseFen, analysis) ==
  /\ analysisResult' = analysis
  /\ hallucinatedSquare' = NewHallucinatedSquare(analysis)
  /\ illegalSquare' = NewIllegalSquare(analysis)
  /\ boardPosition' = DisplayFen(baseFen, analysis)

\* a valid branch reached without the reset of the analysis result
ShowValidKeepingAnalysis(index, baseFen) ==
  /\ analysisResult' = analysisResult
  /\ hallucinatedSquare' = <<>>
  /\ illegalSquare' = <<>>
  /\ boardPosition' = ValidMoveFen(index, baseFen)

\* the valid branch
ShowValid(index, baseFen) ==
  /\ analysisResult' = NoAnalysis
  /\ hallucinatedSquare' = <<>>
  /\ illegalSquare' = <<>>
  /\ boardPosition' = ValidMoveFen(index, baseFen)

ShowRecord(index, baseFen) ==
  IF \E m \in RecordAt(index) : m.is_illegal
  THEN ShowIllegal(baseFen, analyzeIllegalMove(baseFen, gameMoves[index + 1].actual_move,
                                               agentColor))
  ELSE ShowValid(index, baseFen)

\* how far past either end of the game the navigation is followed
MaxOvershoot == 1

\* goToMove runs between renders, after the effects of the last render
goToMove(index) ==
  /\ ~effectPending
  /\ index >= -1 - MaxOvershoot
  /\ index <= Len(gameMoves) - 1 + MaxOvershoot
  /\ IF index = -1
     THEN /\ hallucinatedSquare' = <<>>
          /\ illegalSquare' = <<>>
          /\ analysisResult' = NoAnalysis
          /\ boardPosition' = getBaseChess
          /\ currentMoveIndex' = -1
          /\ arrows' = <<>>
          /\ customSquareStyles' = {}
          /\ moveCalls' = 0
     ELSE /\ ShowRecord(index, ReplayBase(index))
          /\ currentMoveIndex' = index
          /\ moveCalls' = MoveCalls(index)
          /\ UNCHANGED <<arrows, customSquareStyles>>
  /\ Schedule
  /\ UNCHANGED <<propVars, classifierVars, historyVars>>

\* ------------------------------------------------------------------------
\* ReplayPage: the events that call goToMove
\* ------------------------------------------------------------------------

\* the buttons, disabled at the ends of the game
ClickFirst == currentMoveIndex # -1 /\ goToMove(-1)

ClickPrev == currentMoveIndex # -1 /\ goToMove(currentMoveIndex - 1)

ClickNext == currentMoveIndex < Len(gameMoves) - 1 /\ goToMove(currentMoveIndex + 1)

ClickLast == currentMoveIndex < Len(gameMoves) - 1 /\ goToMove(Len(gameMoves) - 1)

\* a cell of the move history
ClickHistory == \E i \in 0..(Len(gameMoves) - 1) : goToMove(i)

\* handleKeyDown
KeyArrowRight == \E index \in {currentMoveIndex + 1} : goToMove(index)

KeyArrowLeft == \E index \in {currentMoveIndex - 1} : goToMove(index)

\* ------------------------------------------------------------------------
\* MoveHistory: the grouping of the moves into rows
\* ------------------------------------------------------------------------

\* { number, white: null, black: null }
NewRow(number) == [number |-> number, white |-> {}, black |-> {}]

\* { move, index }: what a slot holds (a slot is null or one cell)
Cell(index) == {[move |-> gameMoves[index + 1], index |-> index]}

\* a push that leaves the pushed row the current row
PushRowKeepingRow(s) == [s EXCEPT !.rows = Append(@, s.currentRow)]

\* rows.push(currentRow); currentRow = { number: currentNumber, ... }
PushRow(s) ==
  [s EXCEPT !.rows = Append(@, s.currentRow), !.currentRow = NewRow(s.currentNumber)]

\* a white branch that ends the turn after an illegal move too
WhiteStepTurnEnds(s, index) ==
  LET open == IF s.currentRow.white # {} THEN PushRow(s) ELSE s
      put  == [open EXCEPT !.currentRow.white = Cell(index)]
  IN  IF ~gameMoves[index + 1].is_illegal
      THEN [put EXCEPT !.expectedColor = "black"]
      ELSE [PushRow(put) EXCEPT !.expectedColor = "black"]

\* the branch "expectedColor === 'white'"
WhiteStep(s, index) ==
  LET open == IF s.currentRow.white # {} THEN PushRow(s) ELSE s
      put  == [open EXCEPT !.currentRow.white = Cell(index)]
  IN  IF ~gameMoves[index + 1].is_illegal
      THEN [put EXCEPT !.expectedColor = "black"]
      ELSE PushRow(put)

\* after a legal black move: the row is pushed and the number goes up
TurnEnds(s) ==
  [s EXCEPT !.rows = Append(@, s.currentRow),
            !.currentNumber = @ + 1,
            !.currentRow = NewRow(s.currentNumber + 1),
            !.expectedColor = "white"]

\* a black branch that counts an illegal move as a move of the game
BlackStepCountsRetry(s, index) ==
  LET open == IF s.currentRow.black # {} THEN PushRow(s) ELSE s
      put  == [open EXCEPT !.currentRow.black = Cell(index)]
  IN  IF ~gameMoves[index + 1].is_illegal
      THEN TurnEnds(put)
      ELSE [TurnEnds(put) EXCEPT !.expectedColor = "black"]

\* the branch "Expected Black"
BlackStep(s, index) ==
  LET open == IF s.currentRow.black # {} THEN PushRow(s) ELSE s
      put  == [open EXCEPT !.currentRow.black = Cell(index)]
  IN  IF ~gameMoves[index + 1].is_illegal
      THEN TurnEnds(put)
      ELSE PushRow(put)

\* the body of moves.forEach((move, index) => ...)
GroupStep(s, index) ==
  IF s.expectedColor = "white" THEN WhiteStep(s, index) ELSE BlackStep(s, index)

SetLoop(s) ==
  /\ rows' = s.rows
  /\ currentNumber' = s.currentNumber
  /\ currentRow' = s.currentRow
  /\ expectedColor' = s.expectedColor

\* one turn of moves.forEach
GroupMove ==
  /\ ~rendered
  /\ forEachIndex < Len(gameMoves)
  /\ SetLoop(GroupStep([rows |-> rows, currentNumber |-> currentNumber,
                        currentRow |-> currentRow, expectedColor |-> expectedColor],
                       forEachIndex))
  /\ forEachIndex' = forEachIndex + 1
  /\ UNCHANGED <<startColor, rendered, propVars, replayVars, classifierVars>>

\* "push final partial row if exists", and the rows are rendered
PushFinalRow ==
  /\ ~rendered
  /\ forEachIndex = Len(gameMoves)
  /\ rows' = IF currentRow.white # {} \/ currentRow.black # {}
             THEN Append(rows, currentRow)
             ELSE rows
  /\ rendered' = TRUE
  /\ UNCHANGED <<startColor, currentNumber, currentRow, expectedColor, forEachIndex,
                 propVars, replayVars, classifierVars>>

\* the loop before its first turn
LoopStart ==
  /\ rows = <<>>
  /\ currentNumber = 1
  /\ currentRow = NewRow(1)
  /\ expectedColor = startColor
  /\ forEachIndex = 0
  /\ rendered = FALSE

\* the history is not rendered
HistoryIdle == startColor = "white" /\ LoopStart

\* ------------------------------------------------------------------------
\* The games replayed
\* ------------------------------------------------------------------------

\* the longest game
MaxMoves == 2

Colors == {"white", "black"}

Kings == {Pc("k", "w", <<"e", "1">>), Pc("k", "b", <<"e", "8">>)}

\* 4k3/4p3/8/8/8/8/4P3/4K3 w - - 0 1
NoQueenFen ==
  Position(Kings \cup {Pc("p", "w", <<"e", "2">>), Pc("p", "b", <<"e", "7">>)}, "w")

\* 3qk3/4p3/8/8/8/8/4P3/4K3 w - - 0 1: a black queen and no white queen
BlackQueenFen ==
  Position(NoQueenFen.pcs \cup {Pc("q", "b", <<"d", "8">>)}, "w")

\* 4k3/4p3/8/8/4P3/8/8/4K3 b - - 0 1, as a record's fen
RecordedFen ==
  Position(Kings \cup {Pc("p", "w", <<"e", "4">>), Pc("p", "b", <<"e", "7">>)}, "b")

InitialFens == {NoFen, BlackQueenFen}

Attempt(actual, expected, illegal, fen) ==
  [actual_move |-> actual, expected_move |-> expected, is_illegal |-> illegal,
   fen |-> fen]

Attempts ==
  {Attempt(<<"e", "4">>, <<"e", "4">>, FALSE, NoFen),
   Attempt(<<"e", "4">>, <<"e", "4">>, FALSE, RecordedFen),
   Attempt(<<"e", "4">>, <<"K", "d", "2">>, TRUE, NoFen),
   Attempt(<<"e", "5">>, <<"e", "5">>, FALSE, NoFen),
   Attempt(<<"Q", "c", "6">>, <<"e", "4">>, TRUE, NoFen),
   Attempt(<<"z", "z", "9">>, <<"e", "4">>, TRUE, NoFen)}

Games == UNION {[1..n -> Attempts] : n \in 0..MaxMoves}

ClassifierIdle ==
  /\ cFen = NoFen
  /\ cMove = <<>>
  /\ cColor = "white"
  /\ cResult = NoAnalysis

\* the hook after its first render and its effects
Init ==
  /\ ClassifierIdle
  /\ initialFen \in InitialFens
  /\ gameMoves \in Games
  /\ agentColor \in Colors
  /\ currentMoveIndex = -1
  /\ boardPosition = getBaseChess
  /\ arrows = <<>>
  /\ customSquareStyles = {}
  /\ hallucinatedSquare = <<>>
  /\ illegalSquare = <<>>
  /\ analysisResult = NoAnalysis
  /\ effectPending = FALSE
  /\ loadData = "done"
  /\ moveCalls = 0
  /\ HistoryIdle

Next ==
  \/ updateVisuals
  \/ ClickFirst
  \/ ClickPrev
  \/ ClickNext
  \/ ClickLast
  \/ ClickHistory
  \/ KeyArrowRight
  \/ KeyArrowLeft

Spec == Init /\ [][Next]_vars

\* the step that runs the scheduled effect: of the steps of Next only
\* updateVisuals takes effectPending from TRUE to FALSE
EffectRuns == effectPending /\ effectPending' = FALSE

\* React runs a scheduled effect after the render that scheduled it; the
\* user's navigation events come when they come
SpecFair == Spec /\ WF_effectPending(EffectRuns)

\* ------------------------------------------------------------------------
\* Short games: a legal move, a hallucinated queen move and a queen move
\* whose hint names a square of the opponent's queen
\* ------------------------------------------------------------------------

ShortGames ==
  UNION {[1..n -> {Attempt(<<"e", "4">>, <<"e", "4">>, FALSE, NoFen),
                   Attempt(<<"Q", "c", "6">>, <<"e", "4">>, TRUE, NoFen),
                   Attempt(<<"Q", "d", "d", "7">>, <<"e", "4">>, TRUE, NoFen)}] :
         n \in 0..MaxMoves}

InitShort ==
  /\ ClassifierIdle
  /\ initialFen \in InitialFens
  /\ gameMoves \in ShortGames
  /\ agentColor \in Colors
  /\ currentMoveIndex = -1
  /\ boardPosition = getBaseChess
  /\ arrows = <<>>
  /\ customSquareStyles = {}
  /\ hallucinatedSquare = <<>>
  /\ illegalSquare = <<>>
  /\ analysisResult = NoAnalysis
  /\ effectPending = FALSE
  /\ loadData = "done"
  /\ moveCalls = 0
  /\ HistoryIdle

SpecShort == InitShort /\ [][Next]_vars

\* ------------------------------------------------------------------------
\* ReplayPage: another game is loaded into the mounted page
\* ------------------------------------------------------------------------

\* the route's gameId changes: the load effect calls loadData
RouteChange ==
  /\ loadData = "done"
  /\ ~effectPending
  /\ loadData' = "getGame"
  /\ UNCHANGED <<initialFen, gameMoves, agentColor, replayVars, classifierVars,
                 historyVars>>

\* setGame(gameData) of a game with a puzzle: the hook renders with the new
\* moves, its callbacks change and the "sync visuals" effect is scheduled
GameLoaded ==
  /\ loadData = "getGame"
  /\ ~effectPending
  /\ gameMoves' \in ShortGames
  /\ loadData' = "getPuzzle"
  /\ effectPending' = TRUE
  /\ UNCHANGED <<initialFen, agentColor, currentMoveIndex, boardPosition, arrows,
                 customSquareStyles, hallucinatedSquare, illegalSquare,
                 analysisResult, moveCalls, classifierVars, historyVars>>

\* a game without a puzzle: setGame, setInitialFen('') and setAgentColor in
\* one render; the "initialize board on load" effect runs when getBaseChess
\* changed, that is when initialFen did
GameLoadedNoPuzzle ==
  /\ loadData = "getGame"
  /\ ~effectPending
  /\ gameMoves' \in ShortGames
  /\ initialFen' = NoFen
  /\ agentColor' \in Colors
  /\ loadData' = "done"
  /\ IF initialFen' # initialFen
     THEN boardPosition' = getBaseChess' /\ currentMoveIndex' = -1
     ELSE UNCHANGED <<boardPosition, currentMoveIndex>>
  /\ effectPending' = TRUE
  /\ UNCHANGED <<arrows, customSquareStyles, hallucinatedSquare, illegalSquare,
                 analysisResult, moveCalls, classifierVars, historyVars>>

\* setInitialFen(puzzleData.fen) and setAgentColor after getPuzzle
PuzzleLoaded ==
  /\ loadData = "getPuzzle"
  /\ ~effectPending
  /\ initialFen' \in InitialFens \ {NoFen}
  /\ agentColor' \in Colors
  /\ loadData' = "done"
  /\ IF initialFen' # initialFen
     THEN boardPosition' = getBaseChess' /\ currentMoveIndex' = -1
     ELSE UNCHANGED <<boardPosition, currentMoveIndex>>
  /\ effectPending' = (initialFen' # initialFen \/ agentColor' # agentColor)
  /\ UNCHANGED <<gameMoves, arrows, customSquareStyles, hallucinatedSquare,
                 illegalSquare, analysisResult, moveCalls, classifierVars,
                 historyVars>>

\* while the page loads it renders no buttons and no history; the keydown
\* handler stays registered
NextReload ==
  \/ RouteChange
  \/ GameLoaded
  \/ GameLoadedNoPuzzle
  \/ PuzzleLoaded
  \/ updateVisuals
  \/ KeyArrowRight
  \/ KeyArrowLeft
  \/ (loadData = "done" /\ ClickFirst)
  \/ (loadData = "done" /\ ClickPrev)
  \/ (loadData = "done" /\ ClickNext)
  \/ (loadData = "done" /\ ClickLast)
  \/ (loadData = "done" /\ ClickHistory)

SpecReload == InitShort /\ [][NextReload]_vars

\* ------------------------------------------------------------------------
\* The move history on its own: the grouping loop run over one list
\* ------------------------------------------------------------------------

\* the longest list of moves grouped
MaxHistory == 4

\* lists of legal e4, illegal Qh5 and legal e5 in any order
HistoryGames ==
  UNION {[1..n -> {Attempt(<<"e", "4">>, <<"e", "4">>, FALSE, NoFen),
                   Attempt(<<"Q", "h", "5">>, <<"e", "5">>, TRUE, NoFen),
                   Attempt(<<"e", "5">>, <<"e", "5">>, FALSE, NoFen)}] :
         n \in 0..MaxHistory}

InitHistory ==
  /\ ClassifierIdle
  /\ initialFen = NoFen
  /\ gameMoves \in HistoryGames
  /\ agentColor = "white"
  /\ currentMoveIndex = -1
  /\ boardPosition = DefaultPosition
  /\ arrows = <<>>
  /\ customSquareStyles = {}
  /\ hallucinatedSquare = <<>>
  /\ illegalSquare = <<>>
  /\ analysisResult = NoAnalysis
  /\ effectPending = FALSE
  /\ loadData = "done"
  /\ moveCalls = 0
  /\ startColor \in Colors
  /\ LoopStart

NextHistory == GroupMove \/ PushFinalRow

SpecHistory == InitHistory /\ [][NextHistory]_vars

\* ------------------------------------------------------------------------
\* The classifier on its own: analyzeIllegalMove applied to one input
\* ------------------------------------------------------------------------

\* 4k3/8/8/8/8/5N2/8/1N2K3 w - - 0 1: two knights that both reach d2
KnightsFen ==
  Position(Kings \cup {Pc("n", "w", <<"b", "1">>), Pc("n", "w", <<"f", "3">>)}, "w")

\* 4k3/8/8/R7/8/8/8/R3K3 w - - 0 1: two rooks on one file
RooksFen ==
  Position(Kings \cup {Pc("r", "w", <<"a", "1">>), Pc("r", "w", <<"a", "5">>)}, "w")

\* 3r3k/4P3/8/8/8/8/8/4K3 w - - 0 1: a pawn that promotes, with or
\* without a capture
PromotionFen ==
  Position({Pc("k", "w", <<"e", "1">>), Pc("k", "b", <<"h", "8">>),
            Pc("p", "w", <<"e", "7">>), Pc("r", "b", <<"d", "8">>)}, "w")

\* 4k3/4p3/8/8/8/8/4P3/4K3 b - - 0 1
BlackToMoveFen == Position(NoQueenFen.pcs, "b")

ClassifiedFens ==
  {NoQueenFen, BlackQueenFen, KnightsFen, RooksFen, PromotionFen, BlackToMoveFen}

\* the notations of a legal move: minimal SAN, SAN with the full source
\* square, and coordinate notation
MinimalSan(m, legal) == MoveToSan(m, legal)

FullSan(m) ==
  (IF m.piece # "p" THEN <<ToUpper(m.piece)>> \o SqName(m.from)
   ELSE IF m.capture THEN <<FileChars[m.from[1]]>> ELSE <<>>)
  \o (IF m.capture THEN <<"x">> ELSE <<>>)
  \o SqName(m.to)
  \o (IF m.promotion # <<>> THEN <<"=", ToUpper(m.promotion[1])>> ELSE <<>>)

Coordinate(m) == SqName(m.from) \o SqName(m.to) \o m.promotion

Notations(m, legal) == {MinimalSan(m, legal), FullSan(m), Coordinate(m)}

\* strings that are the notation of no legal move of these positions
Probes ==
  {<<>>, <<"z", "z", "9">>, <<" ", "e", "4">>, <<"e", "4", " ">>,
   <<"Q", "c", "6">>, <<"Q", "d", "d", "7">>, <<"Q", "d", "8", "d", "7">>,
   <<"e", "7", "e", "6">>, <<"K", "e", "5">>, <<"N", "h", "d", "2">>,
   <<"O", "-", "O">>, <<"e", "4", "!">>,
   <<"R", "a", "a", "3">>, <<"K", "a", "d", "2">>,
   <<"N", "a", "b", "c", "3">>, <<"N", "1", "2", "c", "3">>,
   <<"N", "1", "b", "c", "3">>,
   <<"0", "-", "0">>, <<"O", "-", "O", "-", "O">>, <<"0", "-", "0", "-", "0">>,
   <<"O", "-", "O", "+">>, <<"O", "-", "O", "-", "O", "#">>, <<"0", "-", "0", "!", "?">>}

MoveStrings(fen) ==
  Probes \cup UNION {Notations(m, LegalMoves(fen)) : m \in LegalMoves(fen)}

\* the inputs of one call; the replay is the one of an empty game
InitClassify ==
  /\ cFen \in ClassifiedFens
  /\ cMove \in MoveStrings(cFen)
  /\ cColor \in Colors
  /\ cResult = NoAnalysis
  /\ initialFen = NoFen
  /\ gameMoves = <<>>
  /\ agentColor = "white"
  /\ currentMoveIndex = -1
  /\ boardPosition = DefaultPosition
  /\ arrows = <<>>
  /\ customSquareStyles = {}
  /\ hallucinatedSquare = <<>>
  /\ illegalSquare = <<>>
  /\ analysisResult = NoAnalysis
  /\ effectPending = FALSE
  /\ loadData = "done"
  /\ moveCalls = 0
  /\ HistoryIdle

\* the call analyzeIllegalMove(fen, moveSan, agentColor)
Classify ==
  /\ cResult = NoAnalysis
  /\ cResult' = analyzeIllegalMove(cFen, cMove, cColor)
  /\ UNCHANGED <<cFen, cMove, cColor, propVars, replayVars, historyVars>>

NextClassify == Classify

SpecClassify == InitClassify /\ [][NextClassify]_vars

\* ------------------------------------------------------------------------
\* Properties of the classifier (under SpecClassify)
\* ------------------------------------------------------------------------

\* the call has returned
Classified == cResult # NoAnalysis

\* C1: every valid notation (minimal SAN, SAN with the full source square,
\* coordinate notation) of a move that is legal for the side to move is
\* classified 'legal', with the move's source and target squares.
C1_LegalMoveRecognized ==
  Classified =>
    \A m \in LegalMoves(cFen) :
      (TurnColor(cColor) = m.color /\ cMove \in Notations(m, LegalMoves(cFen)))
        => /\ cResult.type = "legal"
           /\ cResult.sourceSquare = SqName(m.from)
           /\ cResult.targetSquare = SqName(m.to)

\* the pieces of the stated type the disambiguation hint of the move string
\* resolves to
C2_Resolved ==
  Hinted(PiecesOfType(cFen, parseMove(cMove).pieceType),
         parseMove(cMove).disambiguation)

\* C2: a move string with a disambiguation hint that resolves to pieces of
\* the opponent only is classified 'hallucination', never 'illegal'.
C2_OpponentPieceIsHallucination ==
  (/\ Classified
   /\ parseMove(cMove).ok
   /\ parseMove(cMove).disambiguation # <<>>
   /\ C2_Resolved # {}
   /\ \A p \in C2_Resolved : p.color # TurnColor(cColor))
    => cResult.type = "hallucination"

\* C3: a parseable move string in short algebraic notation that names a
\* piece type of which the mover owns no piece is classified
\* 'hallucination', with or without a hint.
C3_MissingPieceIsHallucination ==
  (/\ Classified
   /\ parseMove(cMove).ok
   /\ ~UciMatch(StripMarks(cMove))
   /\ \A p \in PiecesOfType(cFen, parseMove(cMove).pieceType) :
        p.color # TurnColor(cColor))
    => cResult.type = "hallucination"

\* C4: the empty string, 'zz9' and strings with stray white space do not
\* parse, and every string that does not parse is classified 'unknown'
\* with no target square, in every position and for either color.
C4_UnparseableIsUnknown ==
  /\ \A s \in {<<>>, <<"z", "z", "9">>, <<" ", "e", "4">>, <<"e", "4", " ">>} :
       parseMove(s) = NoParse
  /\ (Classified /\ parseMove(cMove) = NoParse)
       => cResult = Analysis("unknown", "", <<>>, <<>>, "unrecognizable")

\* C4, its case: a string with stray white space has been classified.
C4_Witness ==
  /\ Classified
  /\ cMove = <<" ", "e", "4">>
  /\ cResult.type = "unknown"
  /\ cResult.targetSquare = <<>>

\* ------------------------------------------------------------------------
\* Properties of the replay (under Spec)
\* ------------------------------------------------------------------------

\* the number of recorded attempts
N == Len(gameMoves)

InRange == currentMoveIndex \in 0..(N - 1)

\* the attempt at the current index
Current == gameMoves[currentMoveIndex + 1]

\* the attempt before it
Previous == gameMoves[currentMoveIndex]

\* the true position before attempt j: the initial position with the
\* attempts before j that are not flagged illegal applied to it
RECURSIVE TruePosition(_)
TruePosition(j) ==
  IF j <= 0 THEN getBaseChess
  ELSE IF j - 1 < N /\ ~gameMoves[j].is_illegal /\ gameMoves[j].actual_move # <<>>
  THEN TryMove(TruePosition(j - 1), gameMoves[j].actual_move)
  ELSE TruePosition(j - 1)

\* C5: the index stays within [-1, N-1] in every reachable state.
C5_IndexInRange == currentMoveIndex \in (-1)..(N - 1)

\* C6 as stated: at a flagged attempt the board position is the true
\* position before the attempt.
C6_IllegalShowsTruePosition ==
  (InRange /\ Current.is_illegal)
    => boardPosition = TruePosition(currentMoveIndex)

\* the pieces of the display position: the piece on the analyzed source
\* taken off, and a piece of the analyzed type and the agent's color put on
\* the analyzed target, unless the engine refuses to put it there
C6_DisplayPieces(pcs, a) ==
  LET lifted  == {p \in pcs : SqName(p.square) # a.sourceSquare}
      refused == \/ a.pieceType = ""
                 \/ ~IsSquareName(a.targetSquare)
                 \/ /\ a.pieceType = "k"
                    /\ \E p \in lifted : /\ p.type = "k"
                                         /\ p.color = TurnColor(agentColor)
                                         /\ SqName(p.square) # a.targetSquare
  IN IF refused THEN lifted
     ELSE {p \in lifted : SqName(p.square) # a.targetSquare}
          \cup {[type |-> a.pieceType, color |-> TurnColor(agentColor),
                 square |-> SqOf(a.targetSquare)]}

\* C6, amended: at a flagged attempt the board position is the true
\* position before the attempt only when the analysis has no target
\* square; otherwise it is the display position built from the true
\* position, with its side to move and move counters.
C6_IllegalShowsDisplayPosition ==
  (InRange /\ Current.is_illegal)
    => /\ analysisResult =
            analyzeIllegalMove(TruePosition(currentMoveIndex), Current.actual_move,
                               agentColor)
       /\ boardPosition =
            IF analysisResult.targetSquare = <<>>
            THEN TruePosition(currentMoveIndex)
            ELSE [TruePosition(currentMoveIndex) EXCEPT
                    !.pcs = C6_DisplayPieces(@, analysisResult)]

\* C6, its case: a flagged attempt is on display with a board that differs
\* from the true position.
C6_Witness ==
  /\ InRange
  /\ Current.is_illegal
  /\ analysisResult.targetSquare # <<>>
  /\ boardPosition # TruePosition(currentMoveIndex)

\* what goToMove shows of the attempt at the current index, from the
\* position pos before it
ShownFrom(pos) ==
  IF Current.is_illegal
  THEN /\ analysisResult = analyzeIllegalMove(pos, Current.actual_move, agentColor)
       /\ boardPosition = DisplayFen(pos, analysisResult)
  ELSE boardPosition = ValidMoveFen(currentMoveIndex, pos)

\* what updateVisuals draws of it
DrawnFrom(pos) ==
  /\ arrows = RecordVisuals(pos, Current, hallucinatedSquare).arrows
  /\ customSquareStyles = RecordVisuals(pos, Current, hallucinatedSquare).styles

\* C7: whatever frames were shown before, the position before the attempt
\* on display is derived from the initial position and the attempts before
\* it that are not flagged, never from a board shown earlier.
C7_BaseFromInitialPosition ==
  InRange =>
    /\ ShownFrom(TruePosition(currentMoveIndex))
    /\ ~effectPending => DrawnFrom(TruePosition(currentMoveIndex))

\* C7, its case: the attempt on display follows a flagged attempt whose
\* display position is not the true position.
C7_Witness ==
  /\ InRange
  /\ currentMoveIndex >= 1
  /\ ~effectPending
  /\ Previous.is_illegal
  /\ DisplayFen(TruePosition(currentMoveIndex - 1),
                analyzeIllegalMove(TruePosition(currentMoveIndex - 1),
                                   Previous.actual_move, agentColor))
       # TruePosition(currentMoveIndex - 1)

\* the attempt on display is legal: not flagged and accepted by the engine
C8_Legal ==
  /\ InRange
  /\ ~Current.is_illegal
  /\ MoveFromSan(TruePosition(currentMoveIndex), Current.actual_move) # {}

\* C8 as stated: at a legal attempt the board position is the engine's
\* result of the move, whatever the record's fen is.
C8_LegalShowsEngineResult ==
  C8_Legal =>
    boardPosition = TryMove(TruePosition(currentMoveIndex), Current.actual_move)

\* C8, amended: at a legal attempt the board position is the record's fen
\* when the record has one, and the engine's result of the move when the
\* record's fen is empty.
C8_LegalShowsRecordOrEngineResult ==
  C8_Legal =>
    boardPosition =
      IF Current.fen # NoFen THEN Current.fen
      ELSE TryMove(TruePosition(currentMoveIndex), Current.actual_move)

\* C8, its case: a legal attempt without a recorded fen is on display with
\* the position the move leads to.
C8_Witness ==
  /\ C8_Legal
  /\ Current.fen = NoFen
  /\ boardPosition # TruePosition(currentMoveIndex)

\* C9: an attempt flagged illegal leaves the true position as it was: the
\* attempt after it is shown from the position before the flagged attempt.
C9_FlagIsAuthoritative ==
  (InRange /\ currentMoveIndex >= 1 /\ Previous.is_illegal) =>
    /\ ShownFrom(TruePosition(currentMoveIndex - 1))
    /\ ~effectPending => DrawnFrom(TruePosition(currentMoveIndex - 1))

\* C9, its case: the attempt on display follows a flagged attempt that the
\* engine accepts in the running position.
C9_Witness ==
  /\ InRange
  /\ currentMoveIndex >= 1
  /\ ~effectPending
  /\ Previous.is_illegal
  /\ MoveFromSan(TruePosition(currentMoveIndex - 1), Previous.actual_move) # {}

\* the state goToMove(index) leaves once its effect has run, as a function
\* of the index
C10_Frame(index) ==
  LET base     == ReplayBase(index)
      flagged  == \E m \in RecordAt(index) : m.is_illegal
      analysis == IF index # -1 /\ flagged
                  THEN analyzeIllegalMove(base, gameMoves[index + 1].actual_move,
                                          agentColor)
                  ELSE NoAnalysis
      square   == IF analysis.type = "hallucination" THEN analysis.targetSquare
                  ELSE <<>>
  IN [currentMoveIndex   |-> index,
      boardPosition      |-> IF index = -1 THEN getBaseChess
                             ELSE IF flagged THEN DisplayFen(base, analysis)
                             ELSE ValidMoveFen(index, base),
      hallucinatedSquare |-> square,
      illegalSquare      |-> analysis.targetSquare,
      analysisResult     |-> analysis,
      arrows             |-> VisualsOf(index, square).arrows,
      customSquareStyles |-> VisualsOf(index, square).styles]

\* C10: once the effect has run, the observable state is a function of the
\* index alone: the same whether the index was requested once or twice,
\* and whatever frames were shown before.
C10_StateIsFunctionOfIndex ==
  ~effectPending =>
    [currentMoveIndex   |-> currentMoveIndex,
     boardPosition      |-> boardPosition,
     hallucinatedSquare |-> hallucinatedSquare,
     illegalSquare      |-> illegalSquare,
     analysisResult     |-> analysisResult,
     arrows             |-> arrows,
     customSquareStyles |-> customSquareStyles] = C10_Frame(currentMoveIndex)

\* C10, its case: a hallucinated attempt is on display, reached through
\* the frames before it, and its effect has run.
C10_Witness ==
  /\ ~effectPending
  /\ currentMoveIndex >= 1
  /\ InRange
  /\ hallucinatedSquare # <<>>
  /\ hallucinatedSquare \in customSquareStyles

\* ---------------------------------------------------------------------
\* C11  round trip of the last index

\* the last index of a game that has attempts is on display
AtLastIndex == N >= 1 /\ currentMoveIndex = N - 1

\* C11 as stated: replaying only the legal attempts from the initial
\* position, in order, through the engine gives the position the hook
\* shows at the last index N-1
C11_RoundTrip == AtLastIndex => boardPosition = TruePosition(N)

\* C11, amended: the round trip holds when the last attempt is not flagged
\* illegal and its record carries no fen; for a flagged last attempt the
\* hook shows the visualized board built on the replay of the legal
\* attempts before it
C11_RoundTripOfUnrecordedLegal ==
  AtLastIndex =>
    IF Current.is_illegal
    THEN boardPosition = DisplayFen(TruePosition(N), analysisResult)
    ELSE Current.fen = NoFen => boardPosition = TruePosition(N)

\* a two-attempt game whose legal attempts moved pieces, at its last index
C11_Witness ==
  /\ AtLastIndex
  /\ N >= 2
  /\ ~Current.is_illegal
  /\ Current.fen = NoFen
  /\ TruePosition(N) # TruePosition(N - 1)
  /\ TruePosition(N - 1) # getBaseChess
  /\ boardPosition = TruePosition(N)

\* ---------------------------------------------------------------------
\* C14  a recorded move the engine rejects although it is not flagged

\* the attempt on display is not flagged illegal, yet the engine rejects
\* it on the true position before it
RejectedUnflagged ==
  /\ InRange
  /\ ~Current.is_illegal
  /\ Current.actual_move # <<>>
  /\ MoveFromSan(TruePosition(currentMoveIndex), Current.actual_move) = {}

\* C14: an unflagged recorded move the engine rejects is treated as a
\* rejected attempt: the true position stays the one of the previous index
\* and the frame carries the classification an illegal attempt would carry
C14_RejectionIsClassified ==
  RejectedUnflagged =>
    /\ TruePosition(currentMoveIndex + 1) = TruePosition(currentMoveIndex)
    /\ analysisResult = analyzeIllegalMove(TruePosition(currentMoveIndex),
                                           Current.actual_move, agentColor)
    /\ illegalSquare = analysisResult.targetSquare

\* ---------------------------------------------------------------------
\* C15  the squares of a hallucination

\* the attempt on display is flagged illegal and classified a hallucination
ShowsHallucination ==
  /\ InRange
  /\ Current.is_illegal
  /\ analyzeIllegalMove(TruePosition(currentMoveIndex), Current.actual_move,
                        agentColor).type = "hallucination"

\* C15: on an attempt flagged illegal and classified a hallucination, both
\* hallucinatedSquare and illegalSquare are the target square of the
\* attempted move: c6 for Qc6 when the mover has no queen
C15_HallucinationSquares ==
  ShowsHallucination =>
    /\ hallucinatedSquare =
         analyzeIllegalMove(TruePosition(currentMoveIndex), Current.actual_move,
                            agentColor).targetSquare
    /\ illegalSquare = hallucinatedSquare
    /\ Current.actual_move = <<"Q", "c", "6">> => hallucinatedSquare = <<"c", "6">>

\* Qc6 on display for White who has no queen, after a legal attempt
C15_Witness ==
  /\ ShowsHallucination
  /\ currentMoveIndex = 1
  /\ ~Previous.is_illegal
  /\ Current.actual_move = <<"Q", "c", "6">>
  /\ agentColor = "white"
  /\ hallucinatedSquare = <<"c", "6">>
  /\ illegalSquare = <<"c", "6">>

\* ---------------------------------------------------------------------
\* C16  the pre-game state

\* C16: at index -1, initially and after goToMove(-1) from any state, the
\* board is the game's initial position (the standard starting position
\* when no initial FEN is given) and both squares are null
C16_PreGameIsCanonical ==
  currentMoveIndex = -1 =>
    /\ boardPosition = (IF initialFen = NoFen THEN DefaultPosition ELSE initialFen)
    /\ hallucinatedSquare = <<>>
    /\ illegalSquare = <<>>

\* index -1 just reached by goToMove(-1), in a game that starts from its
\* own FEN and has a hallucinated attempt to come from
C16_Witness ==
  /\ currentMoveIndex = -1
  /\ effectPending
  /\ initialFen = BlackQueenFen
  /\ \E k \in 1..N :
       /\ gameMoves[k].is_illegal
       /\ analyzeIllegalMove(TruePosition(k - 1), gameMoves[k].actual_move,
                             agentColor).type = "hallucination"

\* ---------------------------------------------------------------------
\* C17  a recorded fen is shown verbatim

\* C17: on an attempt that is not flagged illegal and whose record carries
\* a fen, the board is exactly that recorded fen
C17_RecordedFenVerbatim ==
  (InRange /\ ~Current.is_illegal /\ Current.fen # NoFen) =>
    boardPosition = Current.fen

\* a recorded fen on display that the replay of the game does not produce
C17_Witness ==
  /\ InRange
  /\ ~Current.is_illegal
  /\ Current.fen = RecordedFen
  /\ boardPosition = RecordedFen
  /\ TruePosition(currentMoveIndex + 1) # RecordedFen

\* ---------------------------------------------------------------------
\* C19  where a classification is present

\* a classification or one of its highlight squares is set
HasClassification ==
  \/ analysisResult # NoAnalysis
  \/ illegalSquare # <<>>
  \/ hallucinatedSquare # <<>>

IllegalBoardShown ==
  /\ InRange
  /\ Current.is_illegal
  /\ boardPosition # TruePosition(currentMoveIndex)

\* C18: the illegal-state board is transient: once shown, the displayed
\* position eventually changes away from it, whether or not a navigation
\* event follows
C18_IllegalBoardIsTransient == IllegalBoardShown ~> ~IllegalBoardShown

\* ---------------------------------------------------------------------
\* C20  what a navigation step costs

\* C20: the linear replay runs once per loaded game: a navigation step
\* applies no move from the start of the game, it only reads positions
\* computed before
C20_NavigationAppliesNoMove == moveCalls = 0

\* ---------------------------------------------------------------------
\* C12  Scenario D: legal e4, illegal Qh5, legal e5, White to start

\* the rows of Scenario D are rendered
ScenarioD ==
  /\ rendered
  /\ startColor = "white"
  /\ Len(gameMoves) = 3
  /\ gameMoves[1].actual_move = <<"e", "4">> /\ ~gameMoves[1].is_illegal
  /\ gameMoves[2].actual_move = <<"Q", "h", "5">> /\ gameMoves[2].is_illegal
  /\ gameMoves[3].actual_move = <<"e", "5">> /\ ~gameMoves[3].is_illegal

\* the indices of the attempts in a slot
IndicesIn(slot) == {c.index : c \in slot}

\* C12 as stated: attempts 0 and 2 are the White and Black slots of one
\* move-1 row, and attempt 1 has a retry slot of its own, attributed to White
C12_RetryAttributedToWhite ==
  ScenarioD =>
    /\ \E r \in 1..Len(rows) :
         /\ rows[r].number = 1
         /\ IndicesIn(rows[r].white) = {0}
         /\ IndicesIn(rows[r].black) = {2}
    /\ \E r \in 1..Len(rows) :
         /\ IndicesIn(rows[r].white) = {1}
         /\ rows[r].black = {}

\* C12, amended: attempt 0 is the White slot and attempt 1 the Black slot
\* of the first move-1 row (legal e4 passed the turn to Black, so the
\* illegal Qh5 is Black's), and attempt 2 is the Black slot of a second
\* move-1 row whose White slot is empty
C12_RetryAttributedToBlack ==
  ScenarioD =>
    rows = <<[number |-> 1, white |-> Cell(0), black |-> Cell(1)],
             [number |-> 1, white |-> {}, black |-> Cell(2)]>>

\* Scenario D rendered: two rows, the retry in a Black slot
C12_Witness ==
  /\ ScenarioD
  /\ Len(rows) = 2
  /\ IndicesIn(rows[1].black) = {1}
  /\ IndicesIn(rows[2].black) = {2}

\* ---------------------------------------------------------------------
\* C13  the color and the move number of every attempt

\* where the rendered rows put the attempts: index, slot color, row number
Placements ==
  UNION {{[index |-> c.index, color |-> "white", number |-> rows[r].number] :
            c \in rows[r].white}
         \cup {[index |-> c.index, color |-> "black", number |-> rows[r].number] :
                 c \in rows[r].black} :
         r \in 1..Len(rows)}

PlacementsOf(i) == {p \in Placements : p.index = i}

\* the starting color flipped once per non-illegal attempt before index i
ColorByFlips(i) ==
  IF Cardinality({j \in 1..i : ~gameMoves[j].is_illegal}) % 2 = 0
  THEN startColor
  ELSE IF startColor = "white" THEN "black" ELSE "white"

\* the attempts i..j-1 are illegal retries and j is the legal attempt that
\* ends them
RetriesBefore(i, j) ==
  /\ i <= j
  /\ \A k \in i..(j - 1) : gameMoves[k + 1].is_illegal
  /\ ~gameMoves[j + 1].is_illegal

\* C13: every attempt is placed once, in the slot of the starting color
\* flipped once per non-illegal attempt before it, and the illegal retries
\* of one side carry the move number of that side's next legal attempt
C13_ColorAndNumberOfRetries ==
  rendered =>
    /\ \A i \in 0..(N - 1) :
         /\ Cardinality(PlacementsOf(i)) = 1
         /\ \A p \in PlacementsOf(i) : p.color = ColorByFlips(i)
    /\ \A i \in 0..(N - 1) : \A j \in 0..(N - 1) :
         RetriesBefore(i, j) =>
           \A p \in PlacementsOf(i) : \A q \in PlacementsOf(j) :
             p.number = q.number /\ p.color = q.color

\* Black starts with an illegal retry, then moves; White answers with a
\* retry and a legal move: four rows, each retry numbered like the move
\* that follows it
C13_Witness ==
  /\ rendered
  /\ startColor = "black"
  /\ N = 4
  /\ gameMoves[1].is_illegal
  /\ ~gameMoves[2].is_illegal
  /\ gameMoves[3].is_illegal
  /\ ~gameMoves[4].is_illegal
  /\ Len(rows) = 4
  /\ \A p \in PlacementsOf(0) : p.color = "black" /\ p.number = 1
  /\ \A p \in PlacementsOf(2) : p.color = "white" /\ p.number = 2

\* ---------------------------------------------------------------------
\* C21  coordinate notation: the type of the piece on the source square

\* the mover's pieces on the source square of a move in coordinate notation
MoverAtSource ==
  {p \in UciSource(cFen, StripMarks(cMove)) : p.color = TurnColor(cColor)}

\* C21: for a move in coordinate notation whose source square holds a piece
\* of the mover, the type of that piece is the type of the candidates the
\* source is resolved against: the result carries that type and, the hint
\* being the source square itself, that square as its source
C21_CoordinateResolvedByAdoptedType ==
  Classified =>
    \A p \in MoverAtSource :
      /\ cResult.pieceType = p.type
      /\ cResult.sourceSquare = SqName(p.square)

\* ---------------------------------------------------------------------
\* C22  a hint that two of the mover's pieces match

\* the mover's pieces of the stated type that the hint of the move matches
MoverHinted ==
  {p \in Hinted(PiecesOfType(cFen, parseMove(cMove).pieceType),
                parseMove(cMove).disambiguation) : p.color = TurnColor(cColor)}

\* C22: a source square is adopted from the hint only if exactly one of the
\* mover's pieces of the stated type matches it; when two or more match, no
\* source is adopted, so the move is not tried from one of them and the
\* result is not 'legal'
C22_AmbiguousHintAdoptsNothing ==
  (/\ Classified
   /\ parseMove(cMove).ok
   /\ parseMove(cMove).disambiguation # <<>>
   /\ Cardinality(MoverHinted) >= 2)
    => cResult.type # "legal"

\* ---------------------------------------------------------------------
\* C23  a hint that matches no piece, for a move the mover can make

\* the legal moves of the mover with the stated piece type and target
SameTypeAndTarget ==
  {m \in MatchingLegalMoves(cFen, parseMove(cMove).pieceType,
                            parseMove(cMove).targetSquare) :
     m.color = TurnColor(cColor)}

\* C23: when the hint matches no piece of the stated type and the mover has
\* a legal move with the same piece type and target square, the legal-move
\* fallback classifies the move 'legal' with that move's source square
C23_UnmatchedHintFallsBack ==
  (/\ Classified
   /\ parseMove(cMove).ok
   /\ ~UciMatch(StripMarks(cMove))
   /\ parseMove(cMove).disambiguation # <<>>
   /\ Hinted(PiecesOfType(cFen, parseMove(cMove).pieceType),
             parseMove(cMove).disambiguation) = {}
   /\ SameTypeAndTarget # {})
    => /\ cResult.type = "legal"
       /\ \E m \in SameTypeAndTarget : cResult.sourceSquare = SqName(m.from)

\* ---------------------------------------------------------------------
\* C25  the shape of the disambiguation fragment

\* absent, a file, a rank, or a square (file then rank)
WellFormedFragment(d) ==
  \/ d = <<>>
  \/ Len(d) = 1 /\ d[1] \in FileSet \cup RankSet
  \/ Len(d) = 2 /\ d[1] \in FileSet /\ d[2] \in RankSet

\* C25: whenever parseMove accepts a string as short algebraic notation,
\* its disambiguation fragment is absent, one file, one rank or one square;
\* a string whose fragment is two files, two ranks or a rank before a file
\* does not parse
C25_FragmentIsFileRankOrSquare ==
  (/\ Classified
   /\ parseMove(cMove).ok
   /\ ~UciMatch(StripMarks(cMove)))
    => WellFormedFragment(parseMove(cMove).disambiguation)

\* ---------------------------------------------------------------------
\* C26  castling

KingSideCastling == {<<"O", "-", "O">>, <<"0", "-", "0">>}

QueenSideCastling == {<<"O", "-", "O", "-", "O">>, <<"0", "-", "0", "-", "0">>}

\* a king move whose target is the tag of a file, not a square
CastlingTo(parsed, file) ==
  /\ parsed.ok
  /\ parsed.pieceType = "k"
  /\ parsed.targetSquare = <<file>>
  /\ ~IsSquareName(parsed.targetSquare)
  /\ parsed.disambiguation = <<>>
  /\ parsed.promotion = <<>>

\* C26: O-O and 0-0 parse as a king move tagged to the g-file, O-O-O and
\* 0-0-0 as a king move tagged to the c-file, with or without trailing
\* + # ! ? marks, and no other string that parses has a target that is
\* not a square
C26_CastlingIsKingToFileTag ==
  Classified =>
    /\ StripMarks(cMove) \in KingSideCastling => CastlingTo(parseMove(cMove), "g")
    /\ StripMarks(cMove) \in QueenSideCastling => CastlingTo(parseMove(cMove), "c")
    /\ (parseMove(cMove).ok /\ ~IsSquareName(parseMove(cMove).targetSquare))
         => StripMarks(cMove) \in KingSideCastling \cup QueenSideCastling

\* 0-0!? has been classified: a king move to the tag g
C26_Witness ==
  /\ Classified
  /\ cMove = <<"0", "-", "0", "!", "?">>
  /\ CastlingTo(parseMove(cMove), "g")
  /\ cResult.pieceType = "k"
  /\ cResult.targetSquare = <<"g">>

\* ---------------------------------------------------------------------
\* C27  the hint before the single-candidate shortcut

\* the mover's pieces of the stated type
MoverPieces ==
  {p \in PiecesOfType(cFen, parseMove(cMove).pieceType) : p.color = TurnColor(cColor)}

\* C27: when the move carries a hint that matches none of the mover's
\* pieces of the stated type, no piece of the mover is adopted as the
\* source, not even its only piece of that type: the result is not 'legal'
\* and its source is no square of the mover's pieces of that type
C27_HintBeforeShortcut ==
  (/\ Classified
   /\ parseMove(cMove).ok
   /\ parseMove(cMove).disambiguation # <<>>
   /\ MoverHinted = {})
    => /\ cResult.type # "legal"
       /\ \A p \in MoverPieces : cResult.sourceSquare # SqName(p.square)

\* Kad2 for White, whose only king on e1 could move to d2: the hint a
\* matches no king and the king is not adopted
C27_Witness ==
  /\ Classified
  /\ cFen = NoQueenFen
  /\ cColor = "white"
  /\ cMove = <<"K", "a", "d", "2">>
  /\ Cardinality(MoverPieces) = 1
  /\ MoveObject(cFen, <<"e", "1">>, <<"d", "2">>, <<>>) # {}
  /\ cResult.type = "hallucination"
  /\ cResult.sourceSquare = <<>>

\* ---------------------------------------------------------------------
\* C29  whose piece a 'legal' result moves

\* C29: whenever the result is 'legal', the piece on its source square in
\* the given position has the mover's color, also when the mover is not
\* the side to move of the position and the result is the fallback's
C29_LegalSourceIsMovers ==
  (Classified /\ cResult.type = "legal") =>
    \E p \in cFen.pcs :
      /\ SqName(p.square) = cResult.sourceSquare
      /\ p.color = TurnColor(cColor)

\* ---------------------------------------------------------------------
\* C28  the rows as a whole

\* the occupied slots of the rows emitted so far: row, slot color, index
FilledSlots ==
  UNION {{[row |-> r, color |-> "white", index |-> c.index] : c \in rows[r].white}
         \cup {[row |-> r, color |-> "black", index |-> c.index] : c \in rows[r].black} :
         r \in 1..Len(rows)}

\* p comes before q when the rows are read top to bottom, White then Black
ReadBefore(p, q) ==
  \/ p.row < q.row
  \/ p.row = q.row /\ p.color = "white" /\ q.color = "black"

\* C28: every attempt index 0..N-1 is in exactly one slot of one row, the
\* rows list the indices in increasing order, no emitted row is empty, the
\* slot a turn of the loop fills is never occupied, and a row with both
\* slots filled holds a legal White attempt i and the Black attempt i+1
C28_RowsPartitionAttempts ==
  /\ rendered =>
       \A i \in 0..(N - 1) : Cardinality({p \in FilledSlots : p.index = i}) = 1
  /\ \A p \in FilledSlots : \A q \in FilledSlots : ReadBefore(p, q) => p.index < q.index
  /\ \A r \in 1..Len(rows) : rows[r].white # {} \/ rows[r].black # {}
  /\ (~rendered /\ forEachIndex < N) =>
       IF expectedColor = "white" THEN currentRow.white = {}
       ELSE currentRow.black = {}
  /\ \A r \in 1..Len(rows) :
       \A w \in rows[r].white : \A b \in rows[r].black :
         ~w.move.is_illegal /\ b.index = w.index + 1

\* four attempts rendered: a White retry alone in its row, then a row
\* with both slots filled, then Black's legal move after its retry
C28_Witness ==
  /\ rendered
  /\ startColor = "white"
  /\ N = 4
  /\ gameMoves[1].is_illegal
  /\ ~gameMoves[2].is_illegal
  /\ gameMoves[3].is_illegal
  /\ ~gameMoves[4].is_illegal
  /\ Len(rows) = 3
  /\ rows[1].black = {}
  /\ rows[2].white # {} /\ rows[2].black # {}
  /\ rows[3].white = {}

\* ---------------------------------------------------------------------
\* C24  the display-only position of an illegal attempt

\* a flagged attempt whose analysis has a target is on display
DisplayBuilt ==
  /\ InRange
  /\ Current.is_illegal
  /\ analysisResult.targetSquare # <<>>

\* C24: the display-only position lacks the piece of the classified source
\* square only if that piece is the mover's (an opponent piece named by the
\* hint stays on the board), and the piece on the target square has the
\* mover's color and the classified type
C24_OnlyMoversPieceIsRemoved ==
  DisplayBuilt =>
    /\ \A p \in TruePosition(currentMoveIndex).pcs :
         (/\ SqName(p.square) = analysisResult.sourceSquare
          /\ p.color # TurnColor(agentColor))
           => \E q \in boardPosition.pcs : q.square = p.square /\ q.color = p.color
    /\ \A q \in boardPosition.pcs :
         SqName(q.square) = analysisResult.targetSquare =>
           q.color = TurnColor(agentColor) /\ q.type = analysisResult.pieceType

\* ---------------------------------------------------------------------
\* C30  another game is loaded

\* the step that ends a load
LoadCompletes == loadData # "done" /\ loadData' = "done"

\* C30: when another game has been loaded the hook is at index -1, shows
\* the new game's initial position, and hallucinatedSquare, illegalSquare
\* and the analysis result are cleared
C30_LoadReturnsToStart ==
  [][LoadCompletes =>
       /\ currentMoveIndex' = -1
       /\ boardPosition' = getBaseChess'
       /\ hallucinatedSquare' = <<>>
       /\ illegalSquare' = <<>>
       /\ analysisResult' = NoAnalysis]_vars

====
